---- MODULE Spec2Model ----
(***************************************************************************)
(* download_articles.py: for every identifier of a list, fetch the         *)
(* article's metadata, extract the page image references, download the     *)
(* images into a directory named after the identifier and assemble them    *)
(* into output/<identifier>.djvu with the external tools cjb2 and djvm.    *)
(***************************************************************************)
EXTENDS Integers, Sequences, FiniteSets, TLC

(* ------------------------------ bounds --------------------------------- *)
\* longest identifier list
MaxIds == 2
\* most records in one metadata response
MaxRecords == 2
\* most entries in one record's resource.originalFile list
MaxFiles == 2
\* most environment failures (exceptions, HTTP error statuses, non-zero
\* exits) in one behaviour
MaxFaults == 1

(* --------------------------- file names -------------------------------- *)
\* A file name is the sequence of its characters, so that str.endswith and
\* the ordering used by sorted() are computed and not assumed.
Ord(c) ==
    CASE c = "." -> 46 [] c = "0" -> 48 [] c = "1" -> 49 [] c = "2" -> 50
      [] c = "f" -> 102 [] c = "g" -> 103 [] c = "i" -> 105 [] c = "j" -> 106
      [] c = "p" -> 112 [] c = "t" -> 116

Name1Tif == <<"1", ".", "t", "i", "f">>
Name2Tif == <<"2", ".", "t", "i", "f">>
Name10Tif == <<"1", "0", ".", "t", "i", "f">>
Name1Tiff == <<"1", ".", "t", "i", "f", "f">>
Name2Jpg == <<"2", ".", "j", "p", "g">>
TifSuffix == <<".", "t", "i", "f">>

\* every name a directory listing may hold
Names == {Name1Tif, Name2Tif, Name10Tif, Name1Tiff, Name2Jpg}

EndsWith(s, suffix) ==
    /\ Len(s) >= Len(suffix)
    /\ SubSeq(s, Len(s) - Len(suffix) + 1, Len(s)) = suffix

\* Python's < on str: code point by code point, a proper prefix is smaller
RECURSIVE LexLess(_, _)
LexLess(a, b) ==
    IF a = <<>> THEN b # <<>>
    ELSE IF b = <<>> THEN FALSE
    ELSE IF Ord(Head(a)) # Ord(Head(b)) THEN Ord(Head(a)) < Ord(Head(b))
    ELSE LexLess(Tail(a), Tail(b))

\* sorted(): the names of S in ascending order
RECURSIVE Sorted(_)
Sorted(S) ==
    IF S = {} THEN <<>>
    ELSE LET least == CHOOSE x \in S : \A y \in S \ {x} : LexLess(x, y)
         IN <<least>> \o Sorted(S \ {least})

(* ------------------------ metadata responses --------------------------- *)
Ids == {"a1", "a2"}

Entry(mime, ref, name) ==
    [value |-> [mimeType |-> mime, reference |-> ref, profile |-> "original",
                originalFileName |-> name]]

\* the entries an originalFile list is made of
Entries ==
    { Entry("image/tiff", "r1", Name2Tif),
      Entry("image/tiff", "r2", Name10Tif),
      Entry("image/jpeg", "r3", Name2Jpg) }

SeqsUpTo(S, n) == UNION {[1..m -> S] : m \in 0..n}

FileLists == SeqsUpTo(Entries, MaxFiles)

Records ==
    {[entityType |-> "Resource", properties |-> [originalFile |-> fl]] :
        fl \in FileLists}
    \cup {[entityType |-> "Article", properties |-> [originalFile |-> <<>>]]}

\* every parsed response body of the model
Responses == SeqsUpTo(Records, MaxRecords)

file_url(reference, profile, mimetype) ==
    <<"binaryDownload", reference, profile, mimetype>>

IsResource(x) == x.entityType = "Resource"

\* variant: the last element instead of the first
PickLast(images) == images[Len(images)]

\* `[... for x in images][0]`: IndexError on an empty list is raised by the
\* caller's test
Pick(images) == images[1]
IsTiff(x) == x.value.mimeType = "image/tiff"

\* the loop of get_image_paths over the originalFile lists
RECURSIVE PathsLoop(_, _, _)
PathsLoop(files, n, paths) ==
    IF n > Len(files) THEN [raised |-> "none", paths |-> paths]
    ELSE LET images == SelectSeq(files[n], IsTiff)
         IN IF images = <<>>
            THEN [raised |-> "IndexError", paths |-> <<>>]
            ELSE LET reference == Pick(images).value.reference
                     mimetype == Pick(images).value.mimeType
                     profile == Pick(images).value.profile
                     filename == Pick(images).value.originalFileName
                     url == file_url(reference, profile, mimetype)
                 IN PathsLoop(files, n + 1,
                        Append(paths, [filename |-> filename, url |-> url]))

get_image_paths(article_data) ==
    LET resources == SelectSeq(article_data, IsResource)
        files == [n \in 1..Len(resources) |->
                     resources[n].properties.originalFile]
    IN PathsLoop(files, 1, <<>>)


\* The bodies the metadata endpoint serves: articles of up to MaxRecords
\* pages, each page record holding one image/tiff entry, and two articles
\* with a page record that holds none (alone, and after a good page).
Resource(fl) == [entityType |-> "Resource", properties |-> [originalFile |-> fl]]
GoodPages == {Resource(<<e>>) : e \in {x \in Entries : IsTiff(x)}}
BadPage == Resource(<<Entry("image/jpeg", "r3", Name2Jpg)>>)
RemoteBodies ==
    SeqsUpTo(GoodPages, MaxRecords)
    \cup {<<BadPage>>, <<Resource(<<Entry("image/tiff", "r1", Name2Tif)>>), BadPage>>}

generate_url(internal_id) == <<"api", "list", internal_id, "0", "500">>

\* what the image server returns for a download url, and what it returns
\* with an HTTP error status
ImageBody(url) == <<"tiff", url[2]>>
ErrorBody == <<"error", "body">>

(* ---------------------------- file system ------------------------------ *)
Join(dir, name) == <<dir, name>>
book_djvu(dirname) == <<"output", dirname, ".djvu">>
start_error_log(t) == <<t, ".log">>

Range(f) == {f[x] : x \in DOMAIN f}
NoFiles == [x \in {} |-> <<>>]
Put(f, key, val) ==
    [x \in DOMAIN f \cup {key} |-> IF x = key THEN val ELSE f[x]]
Contents(f, key) == IF key \in DOMAIN f THEN f[key] ELSE <<>>

\* the identifier list file: one identifier and a newline per line
InputFiles ==
    UNION {[1..m -> {<<id, "\n">> : id \in Ids}] : m \in 0..MaxIds}
Strip(line) == line[1]
file_to_list(meat) == [n \in 1..Len(meat) |-> Strip(meat[n])]

\* cjb2 output for one page image
Cjb2(image) == <<"djvu", image>>

(* ------------------------------- state --------------------------------- *)
VARIABLES
    which,          \* the executables resolvable on PATH
    listFile,       \* lines of the file named by --list
    remote,         \* metadata response body of each identifier
    pc,             \* position of the process
    run,            \* number of the current run
    clock,          \* timestamp (in seconds) of the latest run start
    error_log,      \* main: name of the error log of this run
    ids,            \* main: the loaded identifiers
    k,              \* main: position of int_id in ids
    raised,         \* the exception raised last in this run
    article_images, \* download_files_of_article: the extracted references
    j,              \* download_images: position in url_list
    files,          \* create_djvu: the sorted page names
    i,              \* create_djvu: 1-based page index
    dirs,           \* directories on disk
    pages,          \* files in the article workspaces: path -> content
    docs,           \* files in output/: path -> sequence of encoded pages
    tmp_djvu,       \* tmp.djvu: <<>> when absent, else <<encoded page>>
    logs,           \* log files: name -> lines
    reqs,           \* HTTP requests issued in this run
    calls,          \* external tool invocations of the current create_djvu
    faults,         \* environment failures so far
    first,          \* the disk as the first run left it
    body,           \* standalone extraction: the parsed response
    result          \* standalone extraction: what get_image_paths returned

env == <<which, listFile, remote>>
disk == <<dirs, pages, docs, tmp_djvu, logs>>
alone == <<body, result>>
vars == <<which, listFile, remote, pc, run, clock, error_log, ids, k, raised,
          article_images, j, files, i, dirs, pages, docs, tmp_djvu, logs, reqs,
          calls, faults, first, body, result>>

int_id == ids[k]
NoSnapshot == [completed |-> FALSE, pages |-> NoFiles, docs |-> NoFiles]

Init ==
    /\ which \in SUBSET {"cjb2", "djvm"}
    /\ listFile \in InputFiles
    /\ remote \in [Ids -> RemoteBodies]
    \* the body of an identifier that is never asked for does not matter
    /\ \A id \in Ids : id \notin Range(file_to_list(listFile)) => remote[id] = <<>>
    /\ pc = "start"
    /\ run = 1
    /\ clock = 1
    /\ error_log = <<0, "">>
    /\ ids = <<>>
    /\ k = 0
    /\ raised = "none"
    /\ article_images = <<>>
    /\ j = 0
    /\ files = <<>>
    /\ i = 0
    /\ dirs = {}
    /\ pages = NoFiles
    /\ docs = NoFiles
    /\ tmp_djvu = <<>>
    /\ logs = NoFiles
    /\ reqs = <<>>
    /\ calls = <<>>
    /\ faults = 0
    /\ first = NoSnapshot
    /\ body = <<>>
    /\ result = [raised |-> "unset", paths |-> <<>>]

(* ----------------------------- exceptions ------------------------------ *)
\* variant: the except clause names another exception
CatchesKeyError(exc) == exc = "KeyError"

\* the except clause of main
Catches(exc) == exc = "IndexError"

\* an exception leaving download_files_of_article, inside main's try
RaiseInTry(exc) ==
    /\ raised' = exc
    /\ pc' = IF Catches(exc) THEN "except" ELSE "aborted"

\* an exception outside any try: the traceback ends the process
Abort(exc) ==
    /\ raised' = exc
    /\ pc' = "aborted"

Fault == faults < MaxFaults /\ faults' = faults + 1

LoopNext(list, n) == IF n > Len(list) THEN "done" ELSE "fetch"

(* ------------------------------ startup -------------------------------- *)
\* variant: one of the two tools is enough
can_djvu_either == "djvm" \in which \/ "cjb2" \in which

\* can_djvu
can_djvu == "djvm" \in which /\ "cjb2" \in which

Startup ==
    /\ pc = "start"
    /\ IF can_djvu
       THEN pc' = "main" /\ raised' = raised
       ELSE Abort("Exception")
    /\ UNCHANGED <<env, run, clock, error_log, ids, k, article_images, j,
                   files, i, disk, reqs, calls, faults, first, alone>>

main ==
    /\ pc = "main"
    /\ \E t \in clock..run :
          /\ clock' = t
          /\ error_log' = start_error_log(t)
    /\ \/ /\ ids' = file_to_list(listFile)
          /\ k' = 1
          /\ pc' = LoopNext(ids', 1)
          /\ UNCHANGED <<raised, faults>>
       \/ /\ Fault
          /\ Abort("OSError")
          /\ UNCHANGED <<ids, k>>
    /\ UNCHANGED <<env, run, article_images, j, files, i, disk, reqs, calls,
                   first, alone>>

(* -------------------- download_files_of_article ------------------------ *)
\* variant: the workspace is made before the references are extracted
download_files_of_article_mkdir_first ==
    /\ pc = "fetch"
    /\ reqs' = Append(reqs, [pos |-> k, url |-> generate_url(int_id)])
    /\ \/ /\ UNCHANGED faults
          /\ LET r == get_image_paths(remote[int_id])
             IN IF r.raised = "IndexError"
                THEN RaiseInTry("IndexError") /\ UNCHANGED article_images
                ELSE /\ article_images' = r.paths
                     /\ pc' = "mkdir"
                     /\ raised' = raised
       \/ \* no connection, or an error status whose body json.loads rejects
          /\ Fault
          /\ \E exc \in {"ConnectionError", "ValueError"} : RaiseInTry(exc)
          /\ UNCHANGED article_images
    /\ dirs' = dirs \cup {int_id}
    /\ UNCHANGED <<env, run, clock, error_log, ids, k, j, files, i, pages,
                   docs, tmp_djvu, logs, calls, first, alone>>

\* requests.get for the metadata, then get_image_paths on the body
download_files_of_article ==
    /\ pc = "fetch"
    /\ reqs' = Append(reqs, [pos |-> k, url |-> generate_url(int_id)])
    /\ \/ /\ UNCHANGED faults
          /\ LET r == get_image_paths(remote[int_id])
             IN IF r.raised = "IndexError"
                THEN RaiseInTry("IndexError") /\ UNCHANGED article_images
                ELSE /\ article_images' = r.paths
                     /\ pc' = "mkdir"
                     /\ raised' = raised
       \/ \* no connection, or an error status whose body json.loads rejects
          /\ Fault
          /\ \E exc \in {"ConnectionError", "ValueError"} : RaiseInTry(exc)
          /\ UNCHANGED article_images
    /\ UNCHANGED <<env, run, clock, error_log, ids, k, j, files, i, disk,
                   calls, first, alone>>

\* variant: os.mkdir without the existence test
MustMkdirAlways(dirname) == TRUE

\* create_directory: `if not os.path.exists(dirname)`
MustMkdir(dirname) == dirname \notin dirs

\* os.mkdir on a directory that exists raises FileExistsError
MkdirFails(dirname) == MustMkdir(dirname) /\ dirname \in dirs

\* create_directory
create_directory(dirname) ==
    dirs' = IF MustMkdir(dirname) THEN dirs \cup {dirname} ELSE dirs

\* download_images, up to the loop
CreateWorkspace ==
    /\ pc = "mkdir"
    /\ IF MkdirFails(int_id)
       THEN /\ RaiseInTry("FileExistsError")
            /\ UNCHANGED <<dirs, j, faults>>
       ELSE \/ /\ create_directory(int_id)
               /\ j' = 1
               /\ pc' = IF article_images = <<>> THEN "djvu" ELSE "download"
               /\ UNCHANGED <<raised, faults>>
            \/ /\ MustMkdir(int_id)
               /\ Fault
               /\ RaiseInTry("OSError")
               /\ UNCHANGED <<dirs, j>>
    /\ UNCHANGED <<env, run, clock, error_log, ids, k, article_images, files,
                   i, pages, docs, tmp_djvu, logs, reqs, calls, first, alone>>

\* download_images, one iteration of the loop
download_images ==
    /\ pc = "download"
    /\ LET url == article_images[j]
           path == Join(int_id, url.filename)
       IN /\ reqs' = Append(reqs, [pos |-> k, url |-> url.url])
          /\ \/ /\ pages' = Put(pages, path, ImageBody(url.url))
                /\ UNCHANGED faults
                /\ j' = j + 1
                /\ pc' = IF j = Len(article_images) THEN "djvu" ELSE "download"
                /\ raised' = raised
             \/ \* an HTTP error status: requests.get returns, .content is
                \* the error body
                /\ Fault
                /\ pages' = Put(pages, path, ErrorBody)
                /\ j' = j + 1
                /\ pc' = IF j = Len(article_images) THEN "djvu" ELSE "download"
                /\ raised' = raised
             \/ /\ Fault
                /\ \E exc \in {"ConnectionError", "OSError"} : RaiseInTry(exc)
                /\ UNCHANGED <<pages, j>>
    /\ UNCHANGED <<env, run, clock, error_log, ids, k, article_images, files,
                   i, dirs, docs, tmp_djvu, logs, calls, first, alone>>

\* log_weird_article and the continue of main
log_weird_article ==
    /\ pc = "except"
    /\ \/ /\ logs' = Put(logs, error_log,
                         Append(Contents(logs, error_log), int_id))
          /\ k' = k + 1
          /\ pc' = LoopNext(ids, k + 1)
          /\ UNCHANGED <<raised, faults>>
       \/ /\ Fault
          /\ Abort("OSError")
          /\ UNCHANGED <<logs, k>>
    /\ UNCHANGED <<env, run, clock, error_log, ids, article_images, j, files,
                   i, dirs, pages, docs, tmp_djvu, reqs, calls, first, alone>>

(* ----------------------------- create_djvu ----------------------------- *)
ListDir(dirname) == {p[2] : p \in {q \in DOMAIN pages : q[1] = dirname}}

\* create_djvu, up to the loop
BeginDjvu ==
    /\ pc = "djvu"
    /\ IF MkdirFails("output")
       THEN /\ Abort("FileExistsError")
            /\ UNCHANGED <<dirs, files, i, calls, faults>>
       ELSE \/ /\ create_directory("output")
               /\ files' = Sorted({x \in ListDir(int_id) : EndsWith(x, TifSuffix)})
               /\ i' = 1
               /\ calls' = <<>>
               /\ pc' = IF files' = <<>> THEN "remove" ELSE "cjb2"
               /\ UNCHANGED <<raised, faults>>
            \/ /\ Fault
               /\ Abort("OSError")
               /\ UNCHANGED <<dirs, files, i, calls>>
    /\ UNCHANGED <<env, run, clock, error_log, ids, k, article_images, j,
                   pages, docs, tmp_djvu, logs, reqs, first, alone>>

\* run(['cjb2', '-clean', page, tmp_djvu], check=True)
Encode ==
    /\ pc = "cjb2"
    /\ LET page == Join(int_id, files[i])
       IN /\ calls' = Append(calls, <<"cjb2", "-clean", page>>)
          /\ \/ /\ tmp_djvu' = <<Cjb2(pages[page])>>
                /\ pc' = "djvm"
                /\ UNCHANGED <<raised, faults>>
             \/ /\ Fault
                /\ Abort("CalledProcessError")
                /\ UNCHANGED tmp_djvu
    /\ UNCHANGED <<env, run, clock, error_log, ids, k, article_images, j,
                   files, i, dirs, pages, docs, logs, reqs, first, alone>>

\* variant: enumerate(files) without the start index 1
MergeModeZeroBased(n) == IF n - 1 = 1 THEN "-c" ELSE "-i"

\* the branch on the page index
MergeMode(n) == IF n = 1 THEN "-c" ELSE "-i"

\* djvm -c writes a document holding the page, djvm -i appends the page to
\* the document
Djvm(mode, book) ==
    IF mode = "-c" THEN Put(docs, book, tmp_djvu)
    ELSE Put(docs, book, Contents(docs, book) \o tmp_djvu)

\* run(['djvm', mode, book_djvu, tmp_djvu], check=True)
Merge ==
    /\ pc = "djvm"
    /\ LET mode == MergeMode(i)
       IN /\ calls' = Append(calls, <<"djvm", mode, book_djvu(int_id), "tmp.djvu">>)
          /\ \/ /\ docs' = Djvm(mode, book_djvu(int_id))
                /\ i' = i + 1
                /\ pc' = IF i = Len(files) THEN "remove" ELSE "cjb2"
                /\ UNCHANGED <<raised, faults>>
             \/ /\ Fault
                /\ Abort("CalledProcessError")
                /\ UNCHANGED <<docs, i>>
    /\ UNCHANGED <<env, run, clock, error_log, ids, k, article_images, j,
                   files, dirs, pages, tmp_djvu, logs, reqs, first, alone>>

\* os.remove(tmp_djvu), then the next iteration of main
RemoveTmp ==
    /\ pc = "remove"
    /\ IF tmp_djvu = <<>>
       THEN /\ Abort("FileNotFoundError")
            /\ UNCHANGED <<tmp_djvu, k, faults>>
       ELSE \/ /\ tmp_djvu' = <<>>
               /\ k' = k + 1
               /\ pc' = LoopNext(ids, k + 1)
               /\ UNCHANGED <<raised, faults>>
            \/ /\ Fault
               /\ Abort("OSError")
               /\ UNCHANGED <<tmp_djvu, k>>
    /\ UNCHANGED <<env, run, clock, error_log, ids, article_images, j, files,
                   i, dirs, pages, docs, logs, reqs, calls, first, alone>>

(* ------------------------------- reruns -------------------------------- *)
\* after a completed run the operator starts the program once more in the
\* same working directory
Rerun ==
    /\ pc = "done"
    /\ run = 1
    /\ run' = run + 1
    /\ first' = [completed |-> TRUE, pages |-> pages, docs |-> docs]
    /\ pc' = "start"
    /\ error_log' = <<0, "">>
    /\ ids' = <<>>
    /\ k' = 0
    /\ raised' = "none"
    /\ article_images' = <<>>
    /\ j' = 0
    /\ files' = <<>>
    /\ i' = 0
    /\ reqs' = <<>>
    /\ calls' = <<>>
    /\ UNCHANGED <<env, clock, disk, faults, alone>>

Next ==
    \/ Startup
    \/ main
    \/ download_files_of_article
    \/ CreateWorkspace
    \/ download_images
    \/ log_weird_article
    \/ BeginDjvu
    \/ Encode
    \/ Merge
    \/ RemoveTmp
    \/ Rerun

Spec == Init /\ [][Next]_vars

(* ----------------------- get_image_paths alone ------------------------- *)
InitExtract ==
    /\ which = {"cjb2", "djvm"}
    /\ listFile = <<>>
    /\ remote = [id \in Ids |-> <<>>]
    /\ pc = "extract"
    /\ run = 1
    /\ clock = 1
    /\ error_log = <<0, "">>
    /\ ids = <<>>
    /\ k = 0
    /\ raised = "none"
    /\ article_images = <<>>
    /\ j = 0
    /\ files = <<>>
    /\ i = 0
    /\ dirs = {}
    /\ pages = NoFiles
    /\ docs = NoFiles
    /\ tmp_djvu = <<>>
    /\ logs = NoFiles
    /\ reqs = <<>>
    /\ calls = <<>>
    /\ faults = 0
    /\ first = NoSnapshot
    /\ body \in Responses
    /\ result = [raised |-> "unset", paths |-> <<>>]

Extract ==
    /\ pc = "extract"
    /\ result' = get_image_paths(body)
    /\ pc' = "extracted"
    /\ UNCHANGED <<env, run, clock, error_log, ids, k, raised, article_images,
                   j, files, i, disk, reqs, calls, faults, first, body>>

SpecExtract == InitExtract /\ [][Extract]_vars

(* -------------------------- create_djvu alone -------------------------- *)
\* create_djvu entered for article a1 whose workspace holds any files
InitDjvu ==
    /\ which = {"cjb2", "djvm"}
    /\ listFile = <<<<"a1", "\n">>>>
    /\ remote = [id \in Ids |-> <<>>]
    /\ pc = "djvu"
    /\ run = 1
    /\ clock = 1
    /\ error_log = start_error_log(1)
    /\ ids = <<"a1">>
    /\ k = 1
    /\ raised = "none"
    /\ article_images = <<>>
    /\ j = 1
    /\ files = <<>>
    /\ i = 0
    /\ \E present \in SUBSET Names :
          pages = [q \in {Join("a1", x) : x \in present} |-> <<"tiff", q[2]>>]
    /\ \E old \in {<<>>, <<Cjb2(<<"tiff", "old">>)>>} :
          /\ docs \in {NoFiles, [q \in {book_djvu("a1")} |-> old]}
          /\ tmp_djvu \in {<<>>, old}
    /\ dirs \in {{"a1"}, {"a1", "output"}}
    /\ docs # NoFiles => "output" \in dirs
    /\ logs = NoFiles
    /\ reqs = <<>>
    /\ calls = <<>>
    /\ faults = 0
    /\ first = NoSnapshot
    /\ body = <<>>
    /\ result = [raised |-> "unset", paths |-> <<>>]

NextDjvu ==
    \/ BeginDjvu
    \/ Encode
    \/ Merge
    \/ RemoveTmp

SpecDjvu == InitDjvu /\ [][NextDjvu]_vars

(* ------------------------------- claims -------------------------------- *)
HasTiff(fl) == \E m \in 1..Len(fl) : fl[m].value.mimeType = "image/tiff"
ResourceIdx(b) == {n \in 1..Len(b) : b[n].entityType = "Resource"}
\* some Resource record's original-file list has no image/tiff entry
Malformed(b) ==
    \E n \in ResourceIdx(b) : ~HasTiff(b[n].properties.originalFile)
Log == Contents(logs, error_log)
ImageReqs(r) == SelectSeq(r, LAMBDA q : q.url[1] = "binaryDownload")

\* C1: when extraction of the k-th identifier fails for want of an image/tiff
\* entry, main enters the handler instead of aborting, and the handler (unless
\* writing the log itself fails) appends the identifier to the error log and
\* goes on to identifier k+1, or ends normally after the last one.
C1_MalformedLoggedAndSkipped ==
    [][ /\ (pc = "fetch" /\ faults' = faults /\ Malformed(remote[ids[k]]))
            => pc' = "except"
        /\ (pc = "except" /\ faults' = faults)
            => /\ logs' = Put(logs, error_log, Append(Log, ids[k]))
               /\ k' = k + 1
               /\ pc' = IF k < Len(ids) THEN "fetch" ELSE "done" ]_vars

C1_Witness ==
    /\ k = 2
    /\ pc = "mkdir"
    /\ Malformed(remote[ids[1]])
    /\ Log = <<ids[1]>>

\* C2: every failure other than the malformed-article IndexError ends the run
\* in the step where it happens and leaves the error log alone.
C2_FailureTerminates ==
    [][ (run' = run /\ (faults' > faults \/ raised' \notin {raised, "IndexError"}))
            => (pc' = "aborted" /\ logs' = logs) ]_vars

\* The part of C2 the code keeps: a failure that raises an exception other
\* than IndexError ends the run in that step and leaves the error log alone.
RaisedFailureTerminates ==
    [][ (run' = run /\ raised' \notin {raised, "IndexError"})
            => (pc' = "aborted" /\ logs' = logs) ]_vars

\* C3: when the loop of create_djvu is through, the tools were invoked as
\* cjb2, djvm, cjb2, djvm, ... once per .tif file of the workspace, in
\* ascending file name order, the first djvm with -c and the others with -i.
C3_MergeOrder ==
    pc = "remove" =>
        LET tifs == {q \in DOMAIN pages :
                        /\ q[1] = ids[k]
                        /\ Len(q[2]) >= 4
                        /\ SubSeq(q[2], Len(q[2]) - 3, Len(q[2])) = <<".", "t", "i", "f">>}
            n == Cardinality(tifs)
        IN /\ Len(calls) = 2 * n
           /\ \A m \in 1..n :
                 /\ calls[2 * m - 1][1] = "cjb2"
                 /\ calls[2 * m - 1][3] \in tifs
                 /\ calls[2 * m] =
                        <<"djvm", IF m = 1 THEN "-c" ELSE "-i",
                          <<"output", ids[k], ".djvu">>, "tmp.djvu">>
           /\ \A a, b \in 1..n :
                 a < b => LexLess(calls[2 * a - 1][3][2], calls[2 * b - 1][3][2])

C3_Witness ==
    /\ pc = "remove"
    /\ Len(calls) = 6
    /\ Join("a1", Name1Tiff) \in DOMAIN pages
    /\ calls[1][3] = Join("a1", Name1Tif)
    /\ calls[3][3] = Join("a1", Name10Tif)

\* C4: the iteration of an identifier whose extraction fails changes nothing
\* on disk but the error log, which gains one line: no directory, no page
\* file, no output document, no tmp.djvu, no image request, no tool call.
C4_FailedArticleLeavesDiskAlone ==
    [][ (pc' = "except" \/ pc = "except")
            => /\ dirs' = dirs
               /\ pages' = pages
               /\ docs' = docs
               /\ tmp_djvu' = tmp_djvu
               /\ calls' = calls
               /\ ImageReqs(reqs') = ImageReqs(reqs)
               /\ \/ logs' = logs
                  \/ logs' = Put(logs, error_log, Append(Log, ids[k])) ]_vars

C4_Witness ==
    /\ pc = "fetch"
    /\ k = 2
    /\ Len(remote[ids[1]]) = 2
    /\ HasTiff(remote[ids[1]][1].properties.originalFile)
    /\ Log = <<ids[1]>>
    /\ dirs = {}

\* C5: when download_images has returned, the workspace holds as many files
\* as there are Page References.
C5_PageCountMatches ==
    pc = "djvu" =>
        Cardinality({q \in DOMAIN pages : q[1] = ids[k]}) = Len(article_images)

\* C6: when every Resource record has an image/tiff entry, get_image_paths
\* returns one Page Reference per Resource record, in response order, each
\* built from the first image/tiff entry of its record.
NthResource(b, n) ==
    b[CHOOSE x \in ResourceIdx(b) :
          Cardinality({y \in ResourceIdx(b) : y < x}) = n - 1]
FirstTiff(fl) ==
    fl[CHOOSE m \in 1..Len(fl) :
          /\ fl[m].value.mimeType = "image/tiff"
          /\ \A l \in 1..(m - 1) : fl[l].value.mimeType # "image/tiff"]
C6_OneReferencePerResource ==
    (pc = "extracted" /\ ~Malformed(body)) =>
        /\ result.raised = "none"
        /\ Len(result.paths) = Cardinality(ResourceIdx(body))
        /\ \A n \in 1..Len(result.paths) :
              LET e == FirstTiff(NthResource(body, n).properties.originalFile).value
              IN result.paths[n] =
                    [filename |-> e.originalFileName,
                     url |-> <<"binaryDownload", e.reference, e.profile, e.mimeType>>]

C6_Witness ==
    /\ pc = "extracted"
    /\ ~Malformed(body)
    /\ Len(body) = 2
    /\ body[1].entityType = "Article"
    /\ body[2].entityType = "Resource"
    /\ Len(body[2].properties.originalFile) = 2
    /\ body[2].properties.originalFile[1].value.mimeType = "image/jpeg"
    /\ Len(result.paths) = 1

\* C7: between two articles and at the end of a run, the error log of the run
\* holds exactly the identifiers processed so far whose extraction failed, in
\* processing order.
FailedBefore(n) ==
    SelectSeq(SubSeq(ids, 1, n - 1), LAMBDA id : Malformed(remote[id]))
C7_LogIsExactlyTheFailures ==
    pc \in {"fetch", "done"} => Log = FailedBefore(k)

\* The part of C7 the code keeps: in a run whose log name is new, the log
\* holds exactly the failures so far.
FirstRunLogIsExactlyTheFailures ==
    (run = 1 /\ pc \in {"fetch", "done"}) => Log = FailedBefore(k)

\* C8: a second run with the same responses and no failure, after a completed
\* first one, does not abort and leaves every workspace file and every output
\* document as the first run left it.
C8_RerunIsIdempotent ==
    (run = 2 /\ faults = 0) =>
        /\ pc # "aborted"
        /\ pc = "done" => (pages = first.pages /\ docs = first.docs)

C8_Witness ==
    /\ run = 2
    /\ faults = 0
    /\ pc = "done"
    /\ Len(ids) = 2
    /\ \E d \in DOMAIN docs : Len(docs[d]) = 2

\* C9: when cjb2 or djvm is not resolvable, the process aborts at startup:
\* the identifier list is not read, no request is issued and nothing is
\* written to disk.
C9_MissingToolsAbortBeforeWork ==
    ~("cjb2" \in which /\ "djvm" \in which) =>
        /\ pc \in {"start", "aborted"}
        /\ pc = "aborted" => raised = "Exception"
        /\ k = 0
        /\ ids = <<>>
        /\ reqs = <<>>
        /\ dirs = {}
        /\ pages = NoFiles
        /\ docs = NoFiles
        /\ tmp_djvu = <<>>
        /\ logs = NoFiles

C9_Witness ==
    /\ which = {"cjb2"}
    /\ pc = "aborted"
    /\ listFile # <<>>

\* C10: with the tools present and no failure of a request or a tool, the
\* run does not abort, and when it is done every identifier is in the error
\* log or has its output document, and tmp.djvu is absent.
C10_EveryArticleLoggedOrAssembled ==
    ("cjb2" \in which /\ "djvm" \in which /\ faults = 0) =>
        /\ pc # "aborted"
        /\ pc = "done" =>
              /\ tmp_djvu = <<>>
              /\ \A n \in 1..Len(ids) :
                    \/ ids[n] \in Range(Log)
                    \/ <<"output", ids[n], ".djvu">> \in DOMAIN docs

====
